---- MODULE Spec2Model ----
(***************************************************************************)
(* State-machine model of the multi-stream dashboard (src/App.tsx and the  *)
(* MultiChat sidebar): order / visibility / layout reconciliation, the     *)
(* drag-and-drop reorder session, the chat <-> cinema-mode coordination    *)
(* and the chat sidebar resize.                                            *)
(*                                                                         *)
(* Array positions are 0-based as in the source; TLA+ sequences are        *)
(* 1-based, so position p of an array is element p + 1 of the sequence.    *)
(***************************************************************************)
EXTENDS Integers, Sequences, FiniteSets, TLC

\* ------------------------------------------------------------------------
\* Catalog and program constants
\* ------------------------------------------------------------------------

\* STREAMERS.map(s => s.id): the catalog ids in declaration order.
STREAMERS == <<"gabepeixe", "coringa", "brabox">>

CatalogIds == { STREAMERS[k] : k \in 1..Len(STREAMERS) }

Platforms == {"Twitch", "YouTube", "Kick"}

\* defaultState: every catalog entry declares defaultPlatform Twitch.
defaultState == [ id \in CatalogIds |-> "Twitch" ]

\* channels of every catalog entry: platform -> channel id.
channels ==
    [ id \in CatalogIds |->
        IF id = "gabepeixe"
        THEN [ Twitch |-> "gaules", Kick |-> "gabepeixe", YouTube |-> "Gabepeixe" ]
        ELSE IF id = "coringa"
        THEN [ Twitch |-> "loud_coringa", YouTube |-> "LOUD Coringa", Kick |-> "coringa" ]
        ELSE [ Twitch |-> "loud_brabox", Kick |-> "brabox", YouTube |-> "LOUDBrabox" ] ]

\* The undefined of a lookup of a key an object does not have.
Undefined == "undefined"

\* Default value of the settings store.
defaultSettings ==
    [ performanceMode |-> FALSE, cinemaMode |-> FALSE,
      streamsVisible |-> TRUE, chatWidth |-> 420 ]

LayoutModes == {"columns", "grid", "pyramid"}

\* The null of useState<string | null> / useRef<number | null>.
NoId == "null"
NoIndex == -1

\* Window widths minus pointer x that a mouse move can request.
RequestedWidths == {200, 300, 301, 500, 799, 800, 900}

\* Delay of the inactivity timers and of the loading safety timer (ms).
InactivityTimeout == 5000
LoadingTimeout == 5000

\* Lengths of time (ms) that can pass between two events.
ElapsedTimes == {2000, 3000}

\* The null of a timer ref; timer ids are positive.
NoTimer == 0

\* The stream slot whose component state is modelled.
SlotId == "gabepeixe"

\* Largest value the refresh keys are driven to.
MaxRefreshKey == 2

\* Values of window.innerWidth: one narrow viewport and two wide ones.
ViewportWidths == {600, 1000, 1280}

VARIABLES
    hasEntered,          \* welcome screen passed
    isMobile,            \* viewport classifier
    isChatOpen,          \* useState(true), not persisted
    settings,            \* persisted AppSettings record
    layoutMode,          \* persisted layout mode
    visibleStreamers,    \* persisted array of visible ids
    streamerOrder,       \* persisted array of ids
    streamerStates,      \* persisted id -> platform map
    expandedStreamerId,  \* id or NoId
    isDragging,          \* drag flag passed to the slots
    dragItem,            \* ref: source position or NoIndex
    dragOverItem,        \* ref: last hovered position or NoIndex
    isResizing,          \* MultiChat resize session flag
    dragSession,         \* environment: the browser has a slot drag in progress
    selectedStreamerId,  \* MultiChat: selected tab, "all" or an id
    chatOverrides,       \* MultiChat: id -> platform, for the ids overridden
    openSelectorId,      \* MultiChat: id whose chat-source dropdown is open
    innerWidth,          \* environment: window.innerWidth now
    renderedInnerWidth,  \* window.innerWidth as read by the last render of App
    globalRefreshKey,    \* App: counter handed to every slot as refreshKeyTrigger
    timers,              \* environment: pending timeouts, id -> callback and time left
    dock,                \* ControlDock: mounted, isUIActive, activityTimerRef
    slot,                \* StreamSlot of SlotId: component state and timer handles
    lastOp,              \* log: the handler that ran last
    prevOp,              \* log: the handler that ran before lastOp
    snap,                \* log: observed state before lastOp
    snap2                \* log: observed state before prevOp

vars == << hasEntered, isMobile, isChatOpen, settings, layoutMode,
           visibleStreamers, streamerOrder, streamerStates,
           expandedStreamerId, isDragging, dragItem, dragOverItem,
           isResizing, dragSession, selectedStreamerId, chatOverrides,
           openSelectorId, innerWidth, renderedInnerWidth,
           globalRefreshKey, timers, dock, slot,
           lastOp, prevOp, snap, snap2 >>

timerVars == << globalRefreshKey, timers, dock, slot >>

viewVars == << innerWidth, renderedInnerWidth >>

chatVars == << selectedStreamerId, chatOverrides, openSelectorId >>

\* The values kept by the preference store: they survive a reload.
PersistedVars == << settings, layoutMode, visibleStreamers, streamerOrder,
                    streamerStates >>

\* ------------------------------------------------------------------------
\* Array helpers with the semantics of the JavaScript built-ins used
\* ------------------------------------------------------------------------

Range(list) == { list[k] : k \in 1..Len(list) }

\* Array.prototype.includes
Includes(list, x) == \E k \in 1..Len(list) : list[k] = x

\* Array.prototype.indexOf: first position of x, or -1.
IndexOf(list, x) ==
    IF Includes(list, x)
    THEN (CHOOSE k \in 1..Len(list) :
            list[k] = x /\ \A m \in 1..(k - 1) : list[m] # x) - 1
    ELSE -1

\* prev.filter(s => s !== id)
FilterOut(list, x) == SelectSeq(list, LAMBDA s : s # x)

\* list.splice(start, 1) for 0 <= start: the array left behind.
SpliceRemove(list, start) ==
    IF start >= Len(list) THEN list
    ELSE [ k \in 1..(Len(list) - 1) |->
             IF k <= start THEN list[k] ELSE list[k + 1] ]

\* list.splice(start, 0, x) for 0 <= start: start is capped at the length.
SpliceInsert(list, start, x) ==
    LET s == IF start > Len(list) THEN Len(list) ELSE start
    IN  [ k \in 1..(Len(list) + 1) |->
            IF k <= s THEN list[k]
            ELSE IF k = s + 1 THEN x
            ELSE list[k - 1] ]

\* Faulty swap: writes a[j] to position i and leaves position j alone.
SwapAtOverwrite(list, i, j) ==
    [ k \in 1..Len(list) |-> IF k = i + 1 THEN list[j + 1] ELSE list[k] ]

\* [a[i], a[j]] = [a[j], a[i]] on a copy.
SwapAt(list, i, j) ==
    [ k \in 1..Len(list) |->
        IF k = i + 1 THEN list[j + 1]
        ELSE IF k = j + 1 THEN list[i + 1]
        ELSE list[k] ]

\* ------------------------------------------------------------------------
\* Log of handler invocations
\* ------------------------------------------------------------------------

Op(name, id, arg, a, b) == [ op |-> name, id |-> id, arg |-> arg, a |-> a, b |-> b ]

NoOp == Op("init", NoId, "", NoIndex, NoIndex)

Snapshot ==
    [ order |-> streamerOrder,
      visible |-> Range(visibleStreamers),
      isChatOpen |-> isChatOpen,
      cinemaMode |-> settings.cinemaMode,
      streamsVisible |-> settings.streamsVisible,
      chatWidth |-> settings.chatWidth,
      layoutMode |-> layoutMode,
      isResizing |-> isResizing ]

Record(o) ==
    /\ lastOp' = o
    /\ prevOp' = lastOp
    /\ snap' = Snapshot
    /\ snap2' = snap

\* ------------------------------------------------------------------------
\* Component state of the dock and of one slot, before they are mounted
\* ------------------------------------------------------------------------

\* idle: time since the last activity event, up to the timeout (log).
dockUnmounted ==
    [ mounted |-> FALSE, isUIActive |-> TRUE, activityTimerRef |-> NoTimer,
      idle |-> 0 ]

\* timer: the handle held by the cleanup of the loading effect.
\* sinceLoad: time since the loading effect last ran, up to the timeout (log).
slotUnmounted ==
    [ mounted |-> FALSE, isHovered |-> FALSE, isUserActive |-> FALSE,
      showSelector |-> FALSE, activityTimerRef |-> NoTimer, idle |-> 0,
      isLoading |-> TRUE, localRefreshKey |-> 0, timer |-> NoTimer,
      sinceLoad |-> 0 ]

\* ------------------------------------------------------------------------
\* Initial state: first load, nothing stored yet
\* ------------------------------------------------------------------------

Init ==
    /\ hasEntered = FALSE
    /\ innerWidth \in ViewportWidths
    /\ renderedInnerWidth = innerWidth
    /\ isMobile = (innerWidth < 768)
    /\ isChatOpen = ~isMobile
    /\ settings = defaultSettings
    /\ layoutMode = "columns"
    /\ visibleStreamers = STREAMERS
    /\ streamerOrder = STREAMERS
    /\ streamerStates = defaultState
    /\ expandedStreamerId = NoId
    /\ isDragging = FALSE
    /\ dragItem = NoIndex
    /\ dragOverItem = NoIndex
    /\ isResizing = FALSE
    /\ dragSession = FALSE
    /\ selectedStreamerId = "all"
    /\ chatOverrides = << >>
    /\ openSelectorId = NoId
    /\ globalRefreshKey = 0
    /\ timers = << >>
    /\ dock = dockUnmounted
    /\ slot = slotUnmounted
    /\ lastOp = NoOp
    /\ prevOp = NoOp
    /\ snap = Snapshot
    /\ snap2 = Snapshot

\* ------------------------------------------------------------------------
\* Layout: what the stream grid renders
\* ------------------------------------------------------------------------

visibleCount == Len(visibleStreamers)

\* Faulty render test: the visibility check is left out.
IsSlotRenderedIgnoringVisibility(streamerId) ==
    /\ streamerId \in CatalogIds
    /\ ~(expandedStreamerId # NoId /\ expandedStreamerId # streamerId)

\* The render loop's tests for one element of streamerOrder: catalog lookup,
\* "visible or the expanded one", and "another slot is expanded".
IsSlotRendered(streamerId) ==
    /\ streamerId \in CatalogIds
    /\ ~(~Includes(visibleStreamers, streamerId) /\ expandedStreamerId # streamerId)
    /\ ~(expandedStreamerId # NoId /\ expandedStreamerId # streamerId)

\* The slots the grid renders, in render order (nulls dropped).
StreamGrid ==
    IF visibleCount = 0 THEN << >>
    ELSE SelectSeq(streamerOrder, IsSlotRendered)

\* Positions of streamerOrder whose slot is on screen (the index handed to
\* the drag handlers).
RenderedPositions ==
    IF settings.streamsVisible /\ visibleCount # 0
    THEN { p \in 0..(Len(streamerOrder) - 1) : IsSlotRendered(streamerOrder[p + 1]) }
    ELSE {}

currentVisibleOrder ==
    SelectSeq(streamerOrder, LAMBDA id : Includes(visibleStreamers, id))

\* Faulty placement: in grid and pyramid mode the first slot gets no hero
\* span.
getGridClassesNoHero(indexInVisible, totalVisible) ==
    IF expandedStreamerId # NoId THEN "flex-1 w-full h-full"
    ELSE IF totalVisible = 1 THEN "flex-1 w-full h-full"
    ELSE IF totalVisible = 2
         THEN "flex-1 border-b md:border-b-0 md:border-r border-white/5 last:border-0"
    ELSE IF totalVisible >= 3
         THEN IF layoutMode = "grid" \/ layoutMode = "pyramid"
              THEN IF indexInVisible = 1
                        THEN "col-span-1 row-span-1 border-r border-white/5"
                   ELSE "col-span-1 row-span-1"
              ELSE "flex-1 relative border-b border-white/5 md:border-b-0 md:border-r border-white/5 last:border-0"
    ELSE "flex-1"

getGridClasses(indexInVisible, totalVisible) ==
    IF expandedStreamerId # NoId THEN "flex-1 w-full h-full"
    ELSE IF totalVisible = 1 THEN "flex-1 w-full h-full"
    ELSE IF totalVisible = 2
         THEN "flex-1 border-b md:border-b-0 md:border-r border-white/5 last:border-0"
    ELSE IF totalVisible >= 3
         THEN IF layoutMode = "grid" \/ layoutMode = "pyramid"
              THEN IF indexInVisible = 0
                        THEN "col-span-2 row-span-1 border-b border-white/5"
                   ELSE IF indexInVisible = 1
                        THEN "col-span-1 row-span-1 border-r border-white/5"
                   ELSE "col-span-1 row-span-1"
              ELSE "flex-1 relative border-b border-white/5 md:border-b-0 md:border-r border-white/5 last:border-0"
    ELSE "flex-1"

\* Faulty container: the grid containers start at two visible slots.
getContainerGridClassFromTwo ==
    IF layoutMode = "grid" /\ expandedStreamerId = NoId /\ visibleCount >= 2
    THEN "grid grid-cols-2 grid-rows-[60%_40%]"
    ELSE IF layoutMode = "pyramid" /\ expandedStreamerId = NoId /\ visibleCount >= 2
    THEN "grid grid-cols-2 grid-rows-2"
    ELSE "flex flex-col md:flex-row"

getContainerGridClass ==
    IF layoutMode = "grid" /\ expandedStreamerId = NoId /\ visibleCount >= 3
    THEN "grid grid-cols-2 grid-rows-[60%_40%]"
    ELSE IF layoutMode = "pyramid" /\ expandedStreamerId = NoId /\ visibleCount >= 3
    THEN "grid grid-cols-2 grid-rows-2"
    ELSE "flex flex-col md:flex-row"

\* gridClasses of the slot of one streamer, as computed in the render loop.
SlotGridClasses(streamerId) ==
    getGridClasses(IndexOf(currentVisibleOrder, streamerId), visibleCount)

\* Columns taken by a slot in a grid container, from its col-span class.
ColSpan(classes) ==
    IF classes = "col-span-2 row-span-1 border-b border-white/5" THEN 2 ELSE 1

\* Grid columns taken by the first n slots of the visible order.
RECURSIVE SpanBefore(_)
SpanBefore(n) ==
    IF n = 0 THEN 0
    ELSE SpanBefore(n - 1) + ColSpan(SlotGridClasses(currentVisibleOrder[n]))

\* Row-major auto-placement in the two-column grid container: the cell
\* where the slot at position indexInVisible of the visible order starts.
GridCell(indexInVisible) ==
    [ row |-> (SpanBefore(indexInVisible) \div 2) + 1,
      col |-> (SpanBefore(indexInVisible) % 2) + 1,
      span |-> ColSpan(SlotGridClasses(currentVisibleOrder[indexInVisible + 1])) ]

\* ------------------------------------------------------------------------
\* Pure parts of the handlers
\* ------------------------------------------------------------------------

\* Faulty move: the direction is ignored and every move goes up.
MoveOrderAlwaysUp(order, id, direction) ==
    LET currentIndex == IndexOf(order, id)
        targetIndex == currentIndex - 1
    IN  IF currentIndex = -1 THEN order
        ELSE IF targetIndex < 0 \/ targetIndex >= Len(order) THEN order
        ELSE SwapAt(order, currentIndex, targetIndex)

\* Faulty move: a move past a boundary wraps around to the other end.
MoveOrderWrapAround(order, id, direction) ==
    LET currentIndex == IndexOf(order, id)
        targetIndex == IF direction = "up" THEN currentIndex - 1 ELSE currentIndex + 1
    IN  IF currentIndex = -1 THEN order
        ELSE SwapAt(order, currentIndex, (targetIndex + Len(order)) % Len(order))

\* handleMoveStreamer: the new order, or the old one on an early return.
MoveOrder(order, id, direction) ==
    LET currentIndex == IndexOf(order, id)
        targetIndex == IF direction = "up" THEN currentIndex - 1 ELSE currentIndex + 1
    IN  IF currentIndex = -1 THEN order
        ELSE IF targetIndex < 0 \/ targetIndex >= Len(order) THEN order
        ELSE SwapAt(order, currentIndex, targetIndex)

\* Faulty drop: the source is always put in front of the target.
DropOrderInsertBefore(order, from, to) ==
    IF from # NoIndex /\ to # NoIndex /\ from # to
    THEN SpliceInsert(SpliceRemove(order, from),
                      IF from < to THEN to - 1 ELSE to, order[from + 1])
    ELSE order

\* Faulty drop: exchanges source and target instead of reinserting.
DropOrderSwap(order, from, to) ==
    IF from # NoIndex /\ to # NoIndex /\ from # to
    THEN SwapAt(order, from, to)
    ELSE order

\* onDrop: the new order, or the old one when the guard fails.
DropOrder(order, from, to) ==
    IF from # NoIndex /\ to # NoIndex /\ from # to
    THEN SpliceInsert(SpliceRemove(order, from), to, order[from + 1])
    ELSE order

\* Faulty toggle: the id is appended whether or not it is present.
ToggleVisibleAppendOnly(prev, id) == Append(prev, id)

\* Faulty toggle: an absent id is not added back.
ToggleVisibleRemoveOnly(prev, id) == FilterOut(prev, id)

\* toggleStreamerVisibility: the updater passed to setVisibleStreamers.
ToggleVisible(prev, id) ==
    IF Includes(prev, id) THEN FilterOut(prev, id) ELSE Append(prev, id)

\* Faulty cycle: the modes are visited in the reverse order.
NextLayoutReversed(prev) ==
    IF prev = "columns" THEN "pyramid"
    ELSE IF prev = "pyramid" THEN "grid"
    ELSE "columns"

\* toggleLayout: the updater passed to setLayoutMode.
NextLayout(prev) ==
    IF prev = "columns" THEN "grid"
    ELSE IF prev = "grid" THEN "pyramid"
    ELSE "columns"

\* ------------------------------------------------------------------------
\* Timers
\* ------------------------------------------------------------------------

\* Ids that are pending or still held by a ref or a cleanup closure.
UsedTimerIds ==
    DOMAIN timers \cup { dock.activityTimerRef, slot.activityTimerRef, slot.timer }

\* The id returned by the next setTimeout: one never handed out before, so
\* one that no holder can still refer to.
NewTimerId ==
    CHOOSE n \in 1..(Cardinality(UsedTimerIds) + 1) :
        n \notin UsedTimerIds /\ \A m \in 1..(n - 1) : m \in UsedTimerIds

setTimeout(table, id, callback, delay) ==
    [ k \in DOMAIN table \cup {id} |->
        IF k = id THEN [ callback |-> callback, remaining |-> delay ] ELSE table[k] ]

\* A no-op for an id that is not pending.
clearTimeout(table, id) == [ k \in DOMAIN table \ {id} |-> table[k] ]

PendingTimers(callback) == { id \in DOMAIN timers : timers[id].callback = callback }

\* Faulty restart: the pending timer is left running.
RestartInactivityTimerAdditive(table, ref, callback) ==
    setTimeout(table, NewTimerId, callback, InactivityTimeout)

\* if (activityTimerRef.current) clearTimeout(activityTimerRef.current);
\* activityTimerRef.current = setTimeout(..., 5000)
RestartInactivityTimer(table, ref, callback) ==
    setTimeout(IF ref # NoTimer THEN clearTimeout(table, ref) ELSE table,
               NewTimerId, callback, InactivityTimeout)

\* Faulty loading effect: the cleanup does not clear the previous timer.
LoadingEffectTimersNoCleanup(table, handle) ==
    setTimeout(table, NewTimerId, "setIsLoading", LoadingTimeout)

\* The loading effect runs again: cleanup of the previous run, then
\* setTimeout(() => setIsLoading(false), 5000).
LoadingEffectTimers(table, handle) ==
    setTimeout(clearTimeout(table, handle), NewTimerId, "setIsLoading", LoadingTimeout)

\* setIsLoading(true) and the handle kept for the cleanup.
LoadingEffectSlot(s) ==
    [ s EXCEPT !.isLoading = TRUE, !.timer = NewTimerId, !.sinceLoad = 0 ]

\* The loading effect of the mounted slot runs because a dependency
\* (currentPlatform, effectiveRefreshKey) changed.
LoadingEffectRuns(changed) ==
    IF slot.mounted /\ changed
    THEN /\ timers' = LoadingEffectTimers(timers, slot.timer)
         /\ slot' = LoadingEffectSlot(slot)
    ELSE UNCHANGED << timers, slot >>

\* ------------------------------------------------------------------------
\* Actions: one per handler
\* ------------------------------------------------------------------------

dragVars == << isDragging, dragItem, dragOverItem, dragSession >>

\* A state change of App renders it again, and the render reads
\* window.innerWidth.
AppRenders ==
    /\ innerWidth' = innerWidth
    /\ renderedInnerWidth' = innerWidth

\* The main UI is rendered (welcome screen passed) and the pointer is not
\* busy with a slot drag, so click targets can be activated.
CanClick == hasEntered /\ ~dragSession

handleEnter ==
    /\ UNCHANGED timerVars
    /\ AppRenders
    /\ ~hasEntered
    /\ hasEntered' = TRUE
    /\ Record(Op("handleEnter", NoId, "", NoIndex, NoIndex))
    /\ UNCHANGED << chatVars, isMobile, isChatOpen, PersistedVars, expandedStreamerId,
                    dragVars, isResizing >>

\* Window resize listener.
checkMobile(mobile) ==
    /\ UNCHANGED timerVars
    /\ ~dragSession
    /\ \E width \in ViewportWidths :
         /\ mobile = (width < 768)
         /\ innerWidth' = width
         /\ renderedInnerWidth' =
              IF mobile # isMobile \/ (mobile /\ ~hasEntered /\ isChatOpen)
              THEN width ELSE renderedInnerWidth
    /\ isMobile' = mobile
    /\ isChatOpen' = IF mobile /\ ~hasEntered THEN FALSE ELSE isChatOpen
    /\ Record(Op("checkMobile", NoId, IF mobile THEN "mobile" ELSE "wide", NoIndex, NoIndex))
    /\ UNCHANGED << chatVars, hasEntered, PersistedVars, expandedStreamerId, dragVars,
                    isResizing >>

\* Page reload: component state restarts from its initial values and the
\* mount effect runs; persisted values and the session flag are restored.
Reload(mobile) ==
    /\ globalRefreshKey' = 0
    /\ timers' = << >>
    /\ dock' = dockUnmounted
    /\ slot' = slotUnmounted
    /\ \E width \in ViewportWidths :
         /\ mobile = (width < 768)
         /\ innerWidth' = width
         /\ renderedInnerWidth' = width
    /\ isMobile' = mobile
    /\ isChatOpen' = ~mobile
    /\ expandedStreamerId' = NoId
    /\ isDragging' = FALSE
    /\ dragItem' = NoIndex
    /\ dragOverItem' = NoIndex
    /\ dragSession' = FALSE
    /\ isResizing' = FALSE
    /\ Record(Op("reload", NoId, IF mobile THEN "mobile" ELSE "wide", NoIndex, NoIndex))
    /\ selectedStreamerId' = "all"
    /\ chatOverrides' = << >>
    /\ openSelectorId' = NoId
    /\ UNCHANGED << hasEntered, PersistedVars >>

\* Faulty toggle: opening the chat leaves cinema mode as it is.
toggleChatKeepCinema ==
    /\ UNCHANGED timerVars
    /\ AppRenders
    /\ CanClick
    /\ isChatOpen' = ~isChatOpen
    /\ Record(Op("toggleChat", NoId, "", NoIndex, NoIndex))
    /\ UNCHANGED << chatVars, hasEntered, isMobile, settings, layoutMode, visibleStreamers,
                    streamerOrder, streamerStates, expandedStreamerId,
                    dragVars, isResizing >>

toggleChat ==
    /\ UNCHANGED timerVars
    /\ AppRenders
    /\ CanClick
    /\ LET willBeOpen == ~isChatOpen
       IN  /\ isChatOpen' = willBeOpen
           /\ settings' = IF willBeOpen /\ settings.cinemaMode
                          THEN [settings EXCEPT !.cinemaMode = FALSE]
                          ELSE settings
    /\ Record(Op("toggleChat", NoId, "", NoIndex, NoIndex))
    /\ UNCHANGED << chatVars, hasEntered, isMobile, layoutMode, visibleStreamers,
                    streamerOrder, streamerStates, expandedStreamerId,
                    dragVars, isResizing >>

toggleLayout ==
    /\ UNCHANGED timerVars
    /\ AppRenders
    /\ CanClick
    /\ layoutMode' = NextLayout(layoutMode)
    /\ Record(Op("toggleLayout", NoId, "", NoIndex, NoIndex))
    /\ UNCHANGED << chatVars, hasEntered, isMobile, isChatOpen, settings,
                    visibleStreamers, streamerOrder, streamerStates,
                    expandedStreamerId, dragVars, isResizing >>

\* Expand button of a slot that is on screen.
toggleExpand(id) ==
    /\ UNCHANGED timerVars
    /\ AppRenders
    /\ CanClick
    /\ IndexOf(streamerOrder, id) \in RenderedPositions
    /\ expandedStreamerId' = IF expandedStreamerId = id THEN NoId ELSE id
    /\ Record(Op("toggleExpand", id, "", NoIndex, NoIndex))
    /\ UNCHANGED << chatVars, hasEntered, isMobile, isChatOpen, PersistedVars, dragVars,
                    isResizing >>

\* Faulty toggle: a slot that is shown again is moved to the end of the
\* order list.
toggleStreamerVisibilityReorders(id) ==
    /\ UNCHANGED timerVars
    /\ AppRenders
    /\ CanClick
    /\ visibleStreamers' = ToggleVisible(visibleStreamers, id)
    /\ streamerOrder' = IF Includes(visibleStreamers, id) THEN streamerOrder
                        ELSE Append(FilterOut(streamerOrder, id), id)
    /\ Record(Op("toggleStreamerVisibility", id, "", NoIndex, NoIndex))
    /\ UNCHANGED << chatVars, hasEntered, isMobile, isChatOpen, settings,
                    layoutMode, streamerStates, expandedStreamerId,
                    dragVars, isResizing >>

toggleStreamerVisibility(id) ==
    /\ UNCHANGED timerVars
    /\ AppRenders
    /\ CanClick
    /\ visibleStreamers' = ToggleVisible(visibleStreamers, id)
    /\ Record(Op("toggleStreamerVisibility", id, "", NoIndex, NoIndex))
    /\ UNCHANGED << chatVars, hasEntered, isMobile, isChatOpen, settings, layoutMode,
                    streamerOrder, streamerStates, expandedStreamerId,
                    dragVars, isResizing >>

\* Faulty reset: the layout mode is left as it is.
handleResetLayoutKeepLayout ==
    /\ LoadingEffectRuns(streamerStates[SlotId] # defaultState[SlotId])
    /\ UNCHANGED << globalRefreshKey, dock >>
    /\ AppRenders
    /\ CanClick
    /\ settings' = [settings EXCEPT !.chatWidth = 420, !.performanceMode = FALSE,
                                    !.cinemaMode = FALSE, !.streamsVisible = TRUE]
    /\ streamerStates' = defaultState
    /\ visibleStreamers' = STREAMERS
    /\ streamerOrder' = STREAMERS
    /\ isChatOpen' = TRUE
    /\ Record(Op("handleResetLayout", NoId, "", NoIndex, NoIndex))
    /\ UNCHANGED << chatVars, hasEntered, isMobile, layoutMode, expandedStreamerId,
                    dragVars, isResizing >>

handleResetLayout ==
    /\ LoadingEffectRuns(streamerStates[SlotId] # defaultState[SlotId])
    /\ UNCHANGED << globalRefreshKey, dock >>
    /\ AppRenders
    /\ CanClick
    /\ settings' = [settings EXCEPT !.chatWidth = 420, !.performanceMode = FALSE,
                                    !.cinemaMode = FALSE, !.streamsVisible = TRUE]
    /\ layoutMode' = "columns"
    /\ streamerStates' = defaultState
    /\ visibleStreamers' = STREAMERS
    /\ streamerOrder' = STREAMERS
    /\ isChatOpen' = TRUE
    /\ Record(Op("handleResetLayout", NoId, "", NoIndex, NoIndex))
    /\ UNCHANGED << chatVars, hasEntered, isMobile, expandedStreamerId, dragVars,
                    isResizing >>

\* "Mostrar Todos": toggles, in catalog order, every id that the rendered
\* visibleStreamers lacks; each updater runs on the result of the one before.
RECURSIVE ShowAllVisible(_, _, _)
ShowAllVisible(rendered, prev, n) ==
    IF n > Len(STREAMERS) THEN prev
    ELSE ShowAllVisible(rendered,
                        IF ~Includes(rendered, STREAMERS[n])
                        THEN ToggleVisible(prev, STREAMERS[n]) ELSE prev,
                        n + 1)

\* The same updaters, each run on the rendered value: the last write wins.
RECURSIVE ShowAllStale(_, _, _)
ShowAllStale(rendered, result, n) ==
    IF n > Len(STREAMERS) THEN result
    ELSE ShowAllStale(rendered,
                      IF ~Includes(rendered, STREAMERS[n])
                      THEN ToggleVisible(rendered, STREAMERS[n]) ELSE result,
                      n + 1)

\* Several updaters handed to the persistent setter during one event: the
\* setter either chains them or runs each on the rendered value.
setVisibleStreamersBatch(rendered, chained) ==
    IF chained THEN ShowAllVisible(rendered, rendered, 1)
    ELSE ShowAllStale(rendered, rendered, 1)

\* The button is disabled when every catalog id is visible.
showAll ==
    /\ UNCHANGED timerVars
    /\ AppRenders
    /\ CanClick
    /\ Len(visibleStreamers) # Len(STREAMERS)
    /\ \E chained \in BOOLEAN :
         visibleStreamers' =
           IF Len(visibleStreamers) < Len(STREAMERS)
           THEN setVisibleStreamersBatch(visibleStreamers, chained)
           ELSE visibleStreamers
    /\ Record(Op("showAll", NoId, "", NoIndex, NoIndex))
    /\ UNCHANGED << chatVars, hasEntered, isMobile, isChatOpen, settings,
                    layoutMode, streamerOrder, streamerStates,
                    expandedStreamerId, dragVars, isResizing >>

\* The dock items pass the negation of the current value of one field.
handleSettingsUpdate(key) ==
    /\ UNCHANGED timerVars
    /\ AppRenders
    /\ CanClick
    /\ key \in {"streamsVisible", "cinemaMode", "performanceMode"}
    /\ LET value == ~settings[key]
       IN  /\ isChatOpen' = IF key = "cinemaMode" /\ value = TRUE
                            THEN FALSE ELSE isChatOpen
           /\ settings' = [settings EXCEPT ![key] = value]
           /\ Record(Op("handleSettingsUpdate", NoId, key,
                        IF value THEN 1 ELSE 0, NoIndex))
    /\ UNCHANGED << chatVars, hasEntered, isMobile, layoutMode, visibleStreamers,
                    streamerOrder, streamerStates, expandedStreamerId,
                    dragVars, isResizing >>

handleMoveStreamer(id, direction) ==
    /\ UNCHANGED timerVars
    /\ IF MoveOrder(streamerOrder, id, direction) # streamerOrder
       THEN AppRenders ELSE UNCHANGED viewVars
    /\ CanClick
    /\ streamerOrder' = MoveOrder(streamerOrder, id, direction)
    /\ Record(Op("handleMoveStreamer", id, direction, NoIndex, NoIndex))
    /\ UNCHANGED << chatVars, hasEntered, isMobile, isChatOpen, settings, layoutMode,
                    visibleStreamers, streamerStates, expandedStreamerId,
                    dragVars, isResizing >>

\* Faulty order reset: visibility is reset along with the order.
onResetOrderAndVisibility ==
    /\ UNCHANGED timerVars
    /\ AppRenders
    /\ CanClick
    /\ streamerOrder' = STREAMERS
    /\ visibleStreamers' = STREAMERS
    /\ Record(Op("onResetOrder", NoId, "", NoIndex, NoIndex))
    /\ UNCHANGED << chatVars, hasEntered, isMobile, isChatOpen, settings,
                    layoutMode, streamerStates, expandedStreamerId,
                    dragVars, isResizing >>

onResetOrder ==
    /\ UNCHANGED timerVars
    /\ AppRenders
    /\ CanClick
    /\ streamerOrder' = STREAMERS
    /\ Record(Op("onResetOrder", NoId, "", NoIndex, NoIndex))
    /\ UNCHANGED << chatVars, hasEntered, isMobile, isChatOpen, settings, layoutMode,
                    visibleStreamers, streamerStates, expandedStreamerId,
                    dragVars, isResizing >>

\* dragstart on a slot: the slot is on screen and draggable.
onDragStart(position) ==
    /\ UNCHANGED timerVars
    /\ AppRenders
    /\ CanClick
    /\ position \in RenderedPositions
    /\ ~isMobile /\ expandedStreamerId = NoId
    /\ dragItem' = position
    /\ isDragging' = TRUE
    /\ dragSession' = TRUE
    /\ Record(Op("onDragStart", NoId, "", position, NoIndex))
    /\ UNCHANGED << chatVars, hasEntered, isMobile, isChatOpen, PersistedVars,
                    expandedStreamerId, dragOverItem, isResizing >>

\* dragenter on a slot during a drag.
onDragEnter(position) ==
    /\ UNCHANGED timerVars
    /\ UNCHANGED viewVars
    /\ hasEntered /\ dragSession
    /\ position \in RenderedPositions
    /\ dragOverItem' = position
    /\ Record(Op("onDragEnter", NoId, "", position, NoIndex))
    /\ UNCHANGED << chatVars, hasEntered, isMobile, isChatOpen, PersistedVars,
                    expandedStreamerId, isDragging, dragItem, dragSession,
                    isResizing >>

\* drop on a slot: ends the drag.
onDrop ==
    /\ UNCHANGED timerVars
    /\ AppRenders
    /\ hasEntered /\ dragSession
    /\ RenderedPositions # {}
    /\ streamerOrder' = DropOrder(streamerOrder, dragItem, dragOverItem)
    /\ dragItem' = NoIndex
    /\ dragOverItem' = NoIndex
    /\ isDragging' = FALSE
    /\ dragSession' = FALSE
    /\ Record(Op("onDrop", NoId, "", dragItem, dragOverItem))
    /\ UNCHANGED << chatVars, hasEntered, isMobile, isChatOpen, settings, layoutMode,
                    visibleStreamers, streamerStates, expandedStreamerId,
                    isResizing >>

\* The drag ends without a drop on a slot (cancelled, or released outside
\* every slot). The slots register no dragend handler, so no code runs.
DragAbort ==
    /\ UNCHANGED timerVars
    /\ UNCHANGED viewVars
    /\ hasEntered /\ dragSession
    /\ dragSession' = FALSE
    /\ Record(Op("dragAbort", NoId, "", dragItem, dragOverItem))
    /\ UNCHANGED << chatVars, hasEntered, isMobile, isChatOpen, PersistedVars,
                    expandedStreamerId, isDragging, dragItem, dragOverItem,
                    isResizing >>

\* MultiChat props computed by App.
chatPanelOpen == isChatOpen \/ ~settings.streamsVisible
disableResize == ~settings.streamsVisible

\* The width prop of MultiChat, from the values the last render read.
currentChatWidth ==
    IF ~settings.streamsVisible THEN renderedInnerWidth
    ELSE IF isChatOpen
         THEN IF isMobile THEN renderedInnerWidth ELSE settings.chatWidth
         ELSE 0

\* mousedown on the resize handle (rendered in an open panel when resize
\* is enabled).
startResizing ==
    /\ UNCHANGED timerVars
    /\ UNCHANGED viewVars
    /\ CanClick
    /\ chatPanelOpen /\ ~disableResize
    /\ isResizing' = IF disableResize THEN isResizing ELSE TRUE
    /\ Record(Op("startResizing", NoId, "", NoIndex, NoIndex))
    /\ UNCHANGED << chatVars, hasEntered, isMobile, isChatOpen, PersistedVars,
                    expandedStreamerId, dragVars >>

\* mouseup anywhere in the window.
stopResizing ==
    /\ UNCHANGED timerVars
    /\ UNCHANGED viewVars
    /\ CanClick
    /\ isResizing' = FALSE
    /\ Record(Op("stopResizing", NoId, "", NoIndex, NoIndex))
    /\ UNCHANGED << chatVars, hasEntered, isMobile, isChatOpen, PersistedVars,
                    expandedStreamerId, dragVars >>

\* Faulty resize: the requested width is committed without the range test.
ResizedWidthUnchecked(current, newWidth) == newWidth

\* The width committed by a mouse move that requests newWidth.
ResizedWidth(current, newWidth) ==
    IF newWidth > 300 /\ newWidth < 800 THEN newWidth ELSE current

\* mousemove anywhere in the window; onResize stores the width in settings.
resize(newWidth) ==
    /\ UNCHANGED timerVars
    /\ IF isResizing /\ ~disableResize /\ newWidth > 300 /\ newWidth < 800
       THEN AppRenders ELSE UNCHANGED viewVars
    /\ CanClick
    /\ settings' = IF isResizing /\ ~disableResize
                   THEN [settings EXCEPT !.chatWidth =
                                            ResizedWidth(settings.chatWidth, newWidth)]
                   ELSE settings
    /\ Record(Op("resize", NoId, "", newWidth, NoIndex))
    /\ UNCHANGED << chatVars, hasEntered, isMobile, isChatOpen, layoutMode,
                    visibleStreamers, streamerOrder, streamerStates,
                    expandedStreamerId, dragVars, isResizing >>

\* ------------------------------------------------------------------------
\* Chat sidebar: platform of each chat, embeds, tabs
\* ------------------------------------------------------------------------

\* obj[key] of a JavaScript object: undefined for a key it does not have.
Lookup(obj, key) == IF key \in DOMAIN obj THEN obj[key] ELSE Undefined

\* Faulty choice: the video platform wins over the chat override.
ChatPlatformOfVideoFirst(overrides, active, streamerId) ==
    IF Lookup(active, streamerId) # Undefined THEN Lookup(active, streamerId)
    ELSE IF Lookup(overrides, streamerId) # Undefined THEN Lookup(overrides, streamerId)
    ELSE "Twitch"

\* chatOverrides[streamerId] || activeStreamers[streamerId] || Platform.Twitch
ChatPlatformOf(overrides, active, streamerId) ==
    IF Lookup(overrides, streamerId) # Undefined THEN Lookup(overrides, streamerId)
    ELSE IF Lookup(active, streamerId) # Undefined THEN Lookup(active, streamerId)
    ELSE "Twitch"

getChatPlatform(streamerId) ==
    ChatPlatformOf(chatOverrides, streamerStates, streamerId)

\* The embed URL, as its template and the channel it is filled with.
getChatUrl(streamerId, platform) ==
    LET channelId == Lookup(channels[streamerId], platform)
    IN  IF channelId = Undefined THEN << "about:blank" >>
        ELSE IF platform = "Twitch"
             THEN << "https://www.twitch.tv/embed/", channelId, "/chat" >>
        ELSE IF platform = "Kick"
             THEN << "https://kick.com/", channelId, "/chatroom" >>
        ELSE << "" >>

\* Faulty panel: only the selected view is rendered.
MountedChatEmbedsActiveOnly ==
    IF ~(hasEntered /\ chatPanelOpen) THEN {}
    ELSE { [ key |-> << view, id >>, src |-> getChatUrl(id, getChatPlatform(id)) ] :
             << view, id >> \in
               { v \in {"mix", "tab"} \X CatalogIds :
                   /\ getChatPlatform(v[2]) # "YouTube"
                   /\ IF v[1] = "mix" THEN selectedStreamerId = "all"
                                      ELSE selectedStreamerId = v[2] } }

\* The chat iframes in the document: one per streamer in the mix view and
\* one per streamer tab view, except where the platform is YouTube (a link
\* is shown instead); none when the panel is not rendered.
MountedChatEmbeds ==
    IF ~(hasEntered /\ chatPanelOpen) THEN {}
    ELSE { [ key |-> << view, id >>, src |-> getChatUrl(id, getChatPlatform(id)) ] :
             << view, id >> \in
               { v \in {"mix", "tab"} \X CatalogIds :
                   getChatPlatform(v[2]) # "YouTube" } }

\* Faulty switching: the mix view stays displayed under every tab.
DisplayedChatViewsMixAlways ==
    IF ~(hasEntered /\ chatPanelOpen) THEN {}
    ELSE { v \in ({ << "mix", "all" >> } \cup ({"tab"} \X CatalogIds)) :
             IF v[1] = "mix" THEN TRUE
                             ELSE selectedStreamerId = v[2] }

\* The views whose container has a display other than none.
DisplayedChatViews ==
    IF ~(hasEntered /\ chatPanelOpen) THEN {}
    ELSE { v \in ({ << "mix", "all" >> } \cup ({"tab"} \X CatalogIds)) :
             IF v[1] = "mix" THEN selectedStreamerId = "all"
                             ELSE selectedStreamerId = v[2] }

\* Platform selector of a slot that is on screen: onSelect calls
\* onPlatformChange, closes the selector, sets isLoading and increments
\* localRefreshKey, so the loading effect runs again.
handlePlatformChange(streamerId, platform) ==
    /\ IF streamerId = SlotId /\ slot.mounted
       THEN /\ slot.localRefreshKey < MaxRefreshKey
            /\ timers' = LoadingEffectTimers(timers, slot.timer)
            /\ slot' = [ LoadingEffectSlot(slot) EXCEPT
                           !.showSelector = FALSE, !.localRefreshKey = @ + 1 ]
       ELSE UNCHANGED << timers, slot >>
    /\ UNCHANGED << globalRefreshKey, dock >>
    /\ AppRenders
    /\ CanClick
    /\ IndexOf(streamerOrder, streamerId) \in RenderedPositions
    /\ platform \in DOMAIN channels[streamerId]
    /\ streamerStates' = [ streamerStates EXCEPT ![streamerId] = platform ]
    /\ UNCHANGED << chatVars, hasEntered, isMobile, isChatOpen, settings,
                    layoutMode, visibleStreamers, streamerOrder,
                    expandedStreamerId, dragVars, isResizing,
                    lastOp, prevOp, snap, snap2 >>

\* Tab buttons of the open panel.
setSelectedStreamerId(tab) ==
    /\ UNCHANGED timerVars
    /\ UNCHANGED viewVars
    /\ CanClick /\ chatPanelOpen
    /\ tab \in {"all"} \cup CatalogIds
    /\ selectedStreamerId' = tab
    /\ UNCHANGED << chatOverrides, openSelectorId, hasEntered, isMobile,
                    isChatOpen, PersistedVars, expandedStreamerId, dragVars,
                    isResizing, lastOp, prevOp, snap, snap2 >>

\* Click on the platform icon of the active tab: opens or closes the
\* chat-source dropdown.
toggleChatSelector(streamerId) ==
    /\ UNCHANGED timerVars
    /\ UNCHANGED viewVars
    /\ CanClick /\ chatPanelOpen
    /\ selectedStreamerId = streamerId
    /\ openSelectorId' = IF openSelectorId = streamerId THEN NoId ELSE streamerId
    /\ UNCHANGED << selectedStreamerId, chatOverrides, hasEntered, isMobile,
                    isChatOpen, PersistedVars, expandedStreamerId, dragVars,
                    isResizing, lastOp, prevOp, snap, snap2 >>

\* Click on an entry of the open dropdown.
setChatOverrides(platform) ==
    /\ UNCHANGED timerVars
    /\ UNCHANGED viewVars
    /\ CanClick /\ chatPanelOpen
    /\ openSelectorId \in CatalogIds
    /\ platform \in DOMAIN channels[openSelectorId]
    /\ chatOverrides' =
         [ id \in DOMAIN chatOverrides \cup {openSelectorId} |->
             IF id = openSelectorId THEN platform ELSE chatOverrides[id] ]
    /\ openSelectorId' = NoId
    /\ UNCHANGED << selectedStreamerId, hasEntered, isMobile, isChatOpen,
                    PersistedVars, expandedStreamerId, dragVars, isResizing,
                    lastOp, prevOp, snap, snap2 >>

\* mousedown outside the dropdown, or a window resize, while it is open.
handleClickOutside ==
    /\ UNCHANGED timerVars
    /\ UNCHANGED viewVars
    /\ CanClick
    /\ openSelectorId # NoId
    /\ openSelectorId' = NoId
    /\ UNCHANGED << selectedStreamerId, chatOverrides, hasEntered, isMobile,
                    isChatOpen, PersistedVars, expandedStreamerId, dragVars,
                    isResizing, lastOp, prevOp, snap, snap2 >>

\* ------------------------------------------------------------------------
\* ControlDock and StreamSlot: activity monitors, loading overlay, time
\* ------------------------------------------------------------------------

nonTimerVars ==
    << hasEntered, isMobile, isChatOpen, settings, layoutMode,
       visibleStreamers, streamerOrder, streamerStates, expandedStreamerId,
       isDragging, dragItem, dragOverItem, isResizing, dragSession,
       selectedStreamerId, chatOverrides, openSelectorId, innerWidth,
       renderedInnerWidth, lastOp, prevOp, snap, snap2 >>

Min(a, b) == IF a < b THEN a ELSE b
Max(a, b) == IF a > b THEN a ELSE b

\* The dock is part of the main UI; its mount effect calls
\* handleGlobalActivity once.
mountControlDock ==
    /\ hasEntered /\ ~dock.mounted
    /\ timers' = RestartInactivityTimer(timers, NoTimer, "setIsUIActive")
    /\ dock' = [ mounted |-> TRUE, isUIActive |-> TRUE,
                 activityTimerRef |-> NewTimerId, idle |-> 0 ]
    /\ UNCHANGED << globalRefreshKey, slot, nonTimerVars >>

\* mousemove, click, keydown or touchstart on the window.
handleGlobalActivity ==
    /\ dock.mounted
    /\ timers' = RestartInactivityTimer(timers, dock.activityTimerRef, "setIsUIActive")
    /\ dock' = [ dock EXCEPT !.isUIActive = TRUE,
                             !.activityTimerRef = NewTimerId, !.idle = 0 ]
    /\ UNCHANGED << globalRefreshKey, slot, nonTimerVars >>

\* The callback of a due dock timer: setIsUIActive(false).
dockTimeout ==
    /\ \E id \in PendingTimers("setIsUIActive") :
         /\ timers[id].remaining = 0
         /\ timers' = clearTimeout(timers, id)
    /\ dock' = IF dock.mounted THEN [ dock EXCEPT !.isUIActive = FALSE ] ELSE dock
    /\ UNCHANGED << globalRefreshKey, slot, nonTimerVars >>

\* Cleanup of the activity monitor.
unmountControlDock ==
    /\ dock.mounted
    /\ timers' = IF dock.activityTimerRef # NoTimer
                 THEN clearTimeout(timers, dock.activityTimerRef) ELSE timers
    /\ dock' = dockUnmounted
    /\ UNCHANGED << globalRefreshKey, slot, nonTimerVars >>

\* The slot of SlotId is rendered: state starts from its initial values
\* and the loading effect runs; the activity effect only adds listeners.
mountStreamSlot ==
    /\ hasEntered /\ ~slot.mounted
    /\ IndexOf(streamerOrder, SlotId) \in RenderedPositions
    /\ timers' = LoadingEffectTimers(timers, NoTimer)
    /\ slot' = [ LoadingEffectSlot(slotUnmounted) EXCEPT !.mounted = TRUE ]
    /\ UNCHANGED << globalRefreshKey, dock, nonTimerVars >>

\* mousemove, click or touchstart on the slot's container.
handleActivity ==
    /\ slot.mounted
    /\ timers' = RestartInactivityTimer(timers, slot.activityTimerRef, "setIsUserActive")
    /\ slot' = [ slot EXCEPT !.isUserActive = TRUE,
                             !.activityTimerRef = NewTimerId, !.idle = 0 ]
    /\ UNCHANGED << globalRefreshKey, dock, nonTimerVars >>

onMouseEnter ==
    /\ slot.mounted /\ ~slot.isHovered
    /\ slot' = [ slot EXCEPT !.isHovered = TRUE, !.isUserActive = TRUE ]
    /\ UNCHANGED << globalRefreshKey, timers, dock, nonTimerVars >>

onMouseLeave ==
    /\ slot.mounted /\ slot.isHovered
    /\ slot' = [ slot EXCEPT !.isHovered = FALSE, !.showSelector = FALSE ]
    /\ UNCHANGED << globalRefreshKey, timers, dock, nonTimerVars >>

\* The platform badge: setShowSelector(!showSelector).
toggleSelector ==
    /\ slot.mounted /\ CanClick
    /\ slot' = [ slot EXCEPT !.showSelector = ~slot.showSelector ]
    /\ UNCHANGED << globalRefreshKey, timers, dock, nonTimerVars >>

\* The callback of a due slot activity timer.
slotTimeout ==
    /\ \E id \in PendingTimers("setIsUserActive") :
         /\ timers[id].remaining = 0
         /\ timers' = clearTimeout(timers, id)
    /\ slot' = IF slot.mounted
               THEN [ slot EXCEPT !.isUserActive = FALSE, !.showSelector = FALSE ]
               ELSE slot
    /\ UNCHANGED << globalRefreshKey, dock, nonTimerVars >>

\* Cleanups of the loading effect and of the activity effect.
unmountStreamSlot ==
    /\ slot.mounted
    /\ timers' =
         LET afterLoading == clearTimeout(timers, slot.timer)
         IN  IF slot.activityTimerRef # NoTimer
             THEN clearTimeout(afterLoading, slot.activityTimerRef)
             ELSE afterLoading
    /\ slot' = slotUnmounted
    /\ UNCHANGED << globalRefreshKey, dock, nonTimerVars >>

\* Reload button of the slot.
handleReload ==
    /\ slot.mounted /\ CanClick
    /\ slot.localRefreshKey < MaxRefreshKey
    /\ timers' = LoadingEffectTimers(timers, slot.timer)
    /\ slot' = [ LoadingEffectSlot(slot) EXCEPT !.localRefreshKey = @ + 1 ]
    /\ UNCHANGED << globalRefreshKey, dock, nonTimerVars >>

\* Refresh-all item of the dock.
handleRefreshAll ==
    /\ CanClick
    /\ globalRefreshKey < MaxRefreshKey
    /\ globalRefreshKey' = globalRefreshKey + 1
    /\ AppRenders
    /\ LoadingEffectRuns(TRUE)
    /\ UNCHANGED << dock, hasEntered, isMobile, isChatOpen, PersistedVars,
                    expandedStreamerId, dragVars, isResizing, chatVars,
                    lastOp, prevOp, snap, snap2 >>

\* load event of the slot's iframe.
onLoad ==
    /\ slot.mounted
    /\ slot' = [ slot EXCEPT !.isLoading = FALSE ]
    /\ UNCHANGED << globalRefreshKey, timers, dock, nonTimerVars >>

\* The callback of a due safety timer: setIsLoading(false).
loadingTimeout ==
    /\ \E id \in PendingTimers("setIsLoading") :
         /\ timers[id].remaining = 0
         /\ timers' = clearTimeout(timers, id)
    /\ slot' = IF slot.mounted THEN [ slot EXCEPT !.isLoading = FALSE ] ELSE slot
    /\ UNCHANGED << globalRefreshKey, dock, nonTimerVars >>

\* Time passes.
Advance(elapsed) ==
    /\ timers' = [ id \in DOMAIN timers |->
                     [ timers[id] EXCEPT !.remaining = Max(0, @ - elapsed) ] ]
    /\ dock' = [ dock EXCEPT !.idle = Min(InactivityTimeout, @ + elapsed) ]
    /\ slot' = [ slot EXCEPT !.idle = Min(InactivityTimeout, @ + elapsed),
                             !.sinceLoad = Min(LoadingTimeout, @ + elapsed) ]
    /\ UNCHANGED << globalRefreshKey, nonTimerVars >>

\* ------------------------------------------------------------------------
\* Specifications
\* ------------------------------------------------------------------------

\* Reordering: discrete moves, drag gestures and the two resets.
ReorderNext ==
    \/ handleEnter
    \/ \E id \in CatalogIds, direction \in {"up", "down"} : handleMoveStreamer(id, direction)
    \/ \E position \in 0..(Len(STREAMERS) - 1) : onDragStart(position)
    \/ \E position \in 0..(Len(STREAMERS) - 1) : onDragEnter(position)
    \/ onDrop
    \/ DragAbort
    \/ onResetOrder
    \/ handleResetLayout

SpecReorder == Init /\ [][ReorderNext]_vars

\* Layout: visibility, expansion, layout mode and order.
LayoutNext ==
    \/ handleEnter
    \/ \E id \in CatalogIds : toggleStreamerVisibility(id)
    \/ \E id \in CatalogIds : toggleExpand(id)
    \/ toggleLayout
    \/ \E id \in CatalogIds, direction \in {"up", "down"} : handleMoveStreamer(id, direction)
    \/ showAll

SpecLayout == Init /\ [][LayoutNext]_vars

\* Settings: chat panel, cinema mode, chat-only mode, sidebar resize, reload.
SettingsNext ==
    \/ handleEnter
    \/ \E mobile \in BOOLEAN : checkMobile(mobile)
    \/ \E mobile \in BOOLEAN : Reload(mobile)
    \/ toggleChat
    \/ \E key \in {"streamsVisible", "cinemaMode", "performanceMode"} : handleSettingsUpdate(key)
    \/ handleResetLayout
    \/ startResizing
    \/ stopResizing
    \/ \E newWidth \in RequestedWidths : resize(newWidth)

SpecSettings == Init /\ [][SettingsNext]_vars

\* Reset: order, visibility, layout mode and chat width all leave their
\* defaults before the layout is reset.
ResetNext ==
    \/ handleEnter
    \/ \E id \in CatalogIds : handleMoveStreamer(id, "up")
    \/ \E id \in CatalogIds : toggleStreamerVisibility(id)
    \/ toggleLayout
    \/ startResizing
    \/ \E newWidth \in {500, 900} : resize(newWidth)
    \/ handleResetLayout

SpecReset == Init /\ [][ResetNext]_vars

\* Reordering while some slots are hidden.
ReorderVisibleNext ==
    \/ handleEnter
    \/ \E id \in CatalogIds : toggleStreamerVisibility(id)
    \/ \E id \in CatalogIds, direction \in {"up", "down"} : handleMoveStreamer(id, direction)
    \/ \E position \in 0..(Len(STREAMERS) - 1) : onDragStart(position)
    \/ \E position \in 0..(Len(STREAMERS) - 1) : onDragEnter(position)
    \/ onDrop
    \/ onResetOrder

SpecReorderVisible == Init /\ [][ReorderVisibleNext]_vars

\* Chat panel: tabs, opening and closing, cinema and chat-only mode.
ChatPanelNext ==
    \/ handleEnter
    \/ \E tab \in {"all"} \cup CatalogIds : setSelectedStreamerId(tab)
    \/ toggleChat
    \/ \E key \in {"cinemaMode", "streamsVisible"} : handleSettingsUpdate(key)
    \/ \E id \in CatalogIds, platform \in Platforms : handlePlatformChange(id, platform)

SpecChatPanel == Init /\ [][ChatPanelNext]_vars

\* Chat platform: video platform changes and chat-source overrides.
ChatPlatformNext ==
    \/ handleEnter
    \/ \E tab \in {"all"} \cup CatalogIds : setSelectedStreamerId(tab)
    \/ \E id \in CatalogIds : toggleChatSelector(id)
    \/ \E platform \in Platforms : setChatOverrides(platform)
    \/ handleClickOutside
    \/ \E id \in CatalogIds, platform \in Platforms : handlePlatformChange(id, platform)

SpecChatPlatform == Init /\ [][ChatPlatformNext]_vars

\* Visibility: toggles, show-all and the two resets.
VisibilityNext ==
    \/ handleEnter
    \/ \E id \in CatalogIds : toggleStreamerVisibility(id)
    \/ showAll
    \/ onResetOrder
    \/ handleResetLayout

SpecVisibility == Init /\ [][VisibilityNext]_vars

\* Inactivity timers of the dock and of a slot.
TimerNext ==
    \/ handleEnter
    \/ mountControlDock
    \/ handleGlobalActivity
    \/ dockTimeout
    \/ unmountControlDock
    \/ mountStreamSlot
    \/ handleActivity
    \/ onMouseEnter
    \/ onMouseLeave
    \/ toggleSelector
    \/ slotTimeout
    \/ loadingTimeout
    \/ unmountStreamSlot
    \/ \E elapsed \in ElapsedTimes : Advance(elapsed)

SpecTimers == Init /\ [][TimerNext]_vars

\* Loading overlay of a slot: mount, reloads, platform changes, time.
LoadingNext ==
    \/ handleEnter
    \/ mountStreamSlot
    \/ unmountStreamSlot
    \/ handleReload
    \/ \E platform \in Platforms : handlePlatformChange(SlotId, platform)
    \/ handleRefreshAll
    \/ handleResetLayout
    \/ onLoad
    \/ loadingTimeout
    \/ \E elapsed \in ElapsedTimes : Advance(elapsed)

SpecLoading == Init /\ [][LoadingNext]_vars

\* Time does not stop, and the callback of a due timer is run.
SpecLoadingFair ==
    /\ SpecLoading
    /\ WF_vars(\E elapsed \in ElapsedTimes : Advance(elapsed))
    /\ WF_vars(loadingTimeout)

Next ==
    LoadingNext \/ VisibilityNext \/ TimerNext \/ ReorderNext \/ LayoutNext \/ SettingsNext \/ ResetNext \/ ChatPanelNext
        \/ ChatPlatformNext \/ ReorderVisibleNext

Spec == Init /\ [][Next]_vars

\* ------------------------------------------------------------------------
\* Properties
\* ------------------------------------------------------------------------

MoveOp(id, direction) == Op("handleMoveStreamer", id, direction, NoIndex, NoIndex)
ToggleVisibilityOp(id) == Op("toggleStreamerVisibility", id, "", NoIndex, NoIndex)
CinemaOnOp == Op("handleSettingsUpdate", NoId, "cinemaMode", 1, NoIndex)

\* C1: after any sequence of discrete moves, drag gestures, order resets
\* and layout resets, streamerOrder is a permutation of the catalog ids:
\* every catalog id occurs exactly once.
OrderIsPermutation ==
    /\ Len(streamerOrder) = Cardinality(CatalogIds)
    /\ \A id \in CatalogIds :
         Cardinality({ k \in 1..Len(streamerOrder) : streamerOrder[k] = id }) = 1

\* A drop that changed the order, right after a move that changed it.
OrderIsPermutationWitness ==
    /\ lastOp.op = "onDrop"
    /\ streamerOrder # snap.order
    /\ \E k \in 1..Len(streamerOrder) : streamerOrder[k] # STREAMERS[k]

\* C2: isChatOpen and settings.cinemaMode are never both true, in every
\* reachable state, the state after a reload included.
ChatCinemaExclusive == ~(isChatOpen /\ settings.cinemaMode)

\* C3: from chat open and cinema off, enabling cinema mode gives chat
\* closed and cinema on; a toggleChat right after gives chat open and
\* cinema off.
CinemaChatRoundTrip ==
    /\ (lastOp = CinemaOnOp /\ snap.isChatOpen /\ ~snap.cinemaMode)
          => (~isChatOpen /\ settings.cinemaMode)
    /\ (lastOp.op = "toggleChat" /\ prevOp = CinemaOnOp
          /\ snap2.isChatOpen /\ ~snap2.cinemaMode)
          => (isChatOpen /\ ~settings.cinemaMode)

CinemaChatRoundTripWitness ==
    /\ lastOp.op = "toggleChat"
    /\ prevOp = CinemaOnOp
    /\ snap2.isChatOpen /\ ~snap2.cinemaMode
    /\ ~snap.isChatOpen /\ snap.cinemaMode

\* C4: with no expanded slot the rendered slots are exactly the ids of the
\* order that are visible, in the relative order of the order list, and
\* their number is visibleCount.
GridShowsVisibleInOrder ==
    expandedStreamerId = NoId =>
        /\ Range(StreamGrid) = Range(streamerOrder) \cap Range(visibleStreamers)
        /\ \A a, b \in 1..Len(StreamGrid) :
             a < b => IndexOf(streamerOrder, StreamGrid[a])
                        < IndexOf(streamerOrder, StreamGrid[b])
        /\ Len(StreamGrid) = visibleCount

\* Two slots shown, in an order that is neither the catalog's nor the
\* visibility array's.
GridShowsVisibleInOrderWitness ==
    /\ expandedStreamerId = NoId
    /\ Len(StreamGrid) = 2
    /\ StreamGrid # visibleStreamers
    /\ streamerOrder # STREAMERS

\* C5: whenever a slot is expanded, for every layout mode and visibility
\* subset (the empty one included), the rendered slot set is exactly the
\* expanded slot, it gets the full-area placement and the container is the
\* non-grid one.
ExpandedOverridesLayout ==
    expandedStreamerId # NoId =>
        /\ StreamGrid = << expandedStreamerId >>
        /\ SlotGridClasses(expandedStreamerId) = "flex-1 w-full h-full"
        /\ getContainerGridClass = "flex flex-col md:flex-row"

\* C6: once a drag that was started with onDragStart has ended, by a drop
\* or by abnormal termination, isDragging is false and the source and
\* target indices are null.
DragSessionCleared ==
    ~dragSession =>
        /\ isDragging = FALSE
        /\ dragItem = NoIndex
        /\ dragOverItem = NoIndex

\* The list obtained from list by taking out the element at position i and
\* putting it back at position j, every element in between shifting by one.
Reinserted(list, i, j) ==
    [ k \in 1..Len(list) |->
        LET p == k - 1
        IN  IF p = j THEN list[i + 1]
            ELSE IF i < j /\ p >= i /\ p < j THEN list[k + 1]
            ELSE IF j < i /\ p > j /\ p <= i THEN list[k - 1]
            ELSE list[k] ]

\* C7: a drop with source position i and hovered position j yields, for
\* i # j, the order with the element at i removed and reinserted at j, and
\* for i = j the unchanged order.
DropReinserts ==
    (lastOp.op = "onDrop" /\ lastOp.a # NoIndex /\ lastOp.b # NoIndex) =>
        IF lastOp.a # lastOp.b
        THEN streamerOrder = Reinserted(snap.order, lastOp.a, lastOp.b)
        ELSE streamerOrder = snap.order

\* begin(0); hover(2); drop(): the case where a reinsertion and a pairwise
\* swap differ.
DropReinsertsWitness ==
    /\ lastOp = Op("onDrop", NoId, "", 0, 2)
    /\ prevOp = Op("onDragEnter", NoId, "", 2, NoIndex)
    /\ streamerOrder # snap.order

IsInterior(order, id) ==
    IndexOf(order, id) > 0 /\ IndexOf(order, id) < Len(order) - 1

\* C8: move(id, up) followed by move(id, down) restores the order, for any
\* id that was at neither boundary before the first move.
MoveUpDownRestores ==
    \A id \in CatalogIds :
        (lastOp = MoveOp(id, "down") /\ prevOp = MoveOp(id, "up")
            /\ IsInterior(snap2.order, id))
        => streamerOrder = snap2.order

MoveUpDownRestoresWitness ==
    \E id \in CatalogIds :
        /\ lastOp = MoveOp(id, "down") /\ prevOp = MoveOp(id, "up")
        /\ IsInterior(snap2.order, id)
        /\ snap.order # snap2.order
        /\ snap2.order # STREAMERS

\* C9: toggleStreamerVisibility(id) applied twice in succession gives back
\* the visibility set it started from.
ToggleTwiceRestores ==
    \A id \in CatalogIds :
        (lastOp = ToggleVisibilityOp(id) /\ prevOp = ToggleVisibilityOp(id))
        => Range(visibleStreamers) = snap2.visible

\* Hidden then shown again, starting from a set that is not the full one.
ToggleTwiceRestoresWitness ==
    \E id \in CatalogIds :
        /\ lastOp = ToggleVisibilityOp(id) /\ prevOp = ToggleVisibilityOp(id)
        /\ id \in snap2.visible
        /\ id \notin snap.visible
        /\ snap2.visible # CatalogIds

\* C10: a resize move in an active resize session that requests more than
\* the maximum commits 800, and one that requests less than the minimum
\* commits 300.
ResizeClamps ==
    (lastOp.op = "resize" /\ snap.isResizing /\ snap.streamsVisible) =>
        /\ (lastOp.a > 800 => settings.chatWidth = 800)
        /\ (lastOp.a < 300 => settings.chatWidth = 300)

\* C11: in every state reached by resize drags, settings updates and
\* resets, settings.chatWidth lies within 300..800.
ChatWidthInBounds ==
    settings.chatWidth >= 300 /\ settings.chatWidth <= 800

\* An out-of-range request arrived in an active resize session after an
\* in-range one had been committed.
ChatWidthInBoundsWitness ==
    /\ lastOp = Op("resize", NoId, "", 900, NoIndex)
    /\ prevOp = Op("resize", NoId, "", 799, NoIndex)
    /\ snap.isResizing /\ snap.streamsVisible
    /\ settings.chatWidth = 799

\* C12: on a wide viewport in grid mode with no expanded slot and at
\* least three visible slots, the first visible slot spans both top
\* columns, the second is bottom-left, the third bottom-right, and the
\* container is the two-column grid with 60%/40% rows.
GridCase == ~isMobile /\ layoutMode = "grid" /\ expandedStreamerId = NoId
              /\ Len(currentVisibleOrder) >= 3

GridHeroPlacement ==
    GridCase =>
        /\ getContainerGridClass = "grid grid-cols-2 grid-rows-[60%_40%]"
        /\ GridCell(0) = [row |-> 1, col |-> 1, span |-> 2]
        /\ GridCell(1) = [row |-> 2, col |-> 1, span |-> 1]
        /\ GridCell(2) = [row |-> 2, col |-> 2, span |-> 1]

GridHeroPlacementWitness ==
    /\ GridCase
    /\ streamerOrder # STREAMERS
    /\ visibleStreamers # STREAMERS

\* C13: with at least three visible slots and no expanded slot, on a mobile
\* viewport the layout is the equal-share linear split for every layout
\* mode, grid and pyramid included.
LinearSplitClasses ==
    "flex-1 relative border-b border-white/5 md:border-b-0 md:border-r border-white/5 last:border-0"

MobileLayoutIsLinear ==
    (isMobile /\ expandedStreamerId = NoId /\ Len(currentVisibleOrder) >= 3) =>
        /\ getContainerGridClass = "flex flex-col md:flex-row"
        /\ \A k \in 1..Len(StreamGrid) :
             SlotGridClasses(StreamGrid[k]) = LinearSplitClasses

\* C14: from any state, handleResetLayout yields in one step the catalog
\* order, all catalog ids visible, layout mode columns and chat width 420.
ResetRestoresDefaults ==
    lastOp.op = "handleResetLayout" =>
        /\ streamerOrder = STREAMERS
        /\ Range(visibleStreamers) = CatalogIds
        /\ Len(visibleStreamers) = Cardinality(CatalogIds)
        /\ layoutMode = "columns"
        /\ settings.chatWidth = 420

\* A reset from a state where all four had left their defaults.
ResetRestoresDefaultsWitness ==
    /\ lastOp.op = "handleResetLayout"
    /\ snap.order # STREAMERS
    /\ snap.visible # CatalogIds
    /\ snap.layoutMode # "columns"
    /\ snap.chatWidth # 420

\* C15: changing the selected chat tab never mounts, unmounts or changes
\* the source of a chat embed; only the displayed view changes.
TabSwitchKeepsEmbeds ==
    [][ (\E tab \in {"all"} \cup CatalogIds : setSelectedStreamerId(tab))
          => MountedChatEmbeds' = MountedChatEmbeds ]_vars

\* A streamer tab is displayed while the embeds of all views are mounted,
\* one of them on a platform other than the default.
TabSwitchKeepsEmbedsWitness ==
    /\ selectedStreamerId \in CatalogIds
    /\ DisplayedChatViews = { << "tab", selectedStreamerId >> }
    /\ Cardinality(MountedChatEmbeds) = 2 * Cardinality(CatalogIds)
    /\ \E id \in CatalogIds : streamerStates[id] = "Kick"

\* C16: once mounted, the chat embeds stay mounted across tab switches,
\* closing and re-opening the chat panel, and cinema-mode toggles.
ChatEmbedsKeptAlive ==
    [][ ( \/ \E tab \in {"all"} \cup CatalogIds : setSelectedStreamerId(tab)
          \/ toggleChat
          \/ handleSettingsUpdate("cinemaMode") )
          => MountedChatEmbeds \subseteq MountedChatEmbeds' ]_vars

\* Every object an activeStreamers prop can be: a platform for some of the
\* catalog ids.
ActiveStreamerMaps ==
    UNION { [ ids -> Platforms ] : ids \in SUBSET CatalogIds }

\* C17: the chat platform of a streamer is its chat override if one was
\* set, otherwise the video's active platform, otherwise the catalog
\* default platform; with no override it equals the video platform.
ChatPlatformFallback ==
    /\ \A id \in CatalogIds, active \in ActiveStreamerMaps :
         ChatPlatformOf(chatOverrides, active, id) =
            IF id \in DOMAIN chatOverrides THEN chatOverrides[id]
            ELSE IF id \in DOMAIN active THEN active[id]
            ELSE defaultState[id]
    /\ \A id \in CatalogIds :
         id \notin DOMAIN chatOverrides => getChatPlatform(id) = streamerStates[id]

\* One chat overridden to a platform other than its video's, another
\* following a video platform that was changed.
ChatPlatformFallbackWitness ==
    \E a, b \in CatalogIds :
        /\ a \in DOMAIN chatOverrides /\ chatOverrides[a] # streamerStates[a]
        /\ getChatPlatform(a) = chatOverrides[a]
        /\ b \notin DOMAIN chatOverrides /\ streamerStates[b] # defaultState[b]
        /\ getChatPlatform(b) = streamerStates[b]

\* C18: no reorder operation changes visibility: a discrete move, a drop
\* and an order reset each leave visibleStreamers exactly as it was.
ReorderKeepsVisibility ==
    [][ ( \/ \E id \in CatalogIds, direction \in {"up", "down"} :
                handleMoveStreamer(id, direction)
          \/ onDrop
          \/ onResetOrder )
          => visibleStreamers' = visibleStreamers ]_vars

\* A drop changed the order while a slot was hidden, after an order reset.
ReorderKeepsVisibilityWitness ==
    /\ lastOp.op = "onDrop"
    /\ streamerOrder # snap.order
    /\ Range(visibleStreamers) # CatalogIds
    /\ snap.order = STREAMERS

VisibleOrderOf(order, visible) == SelectSeq(order, LAMBDA id : id \in visible)

\* C19: toggleStreamerVisibility and show-all leave streamerOrder
\* unchanged, so a slot hidden and then shown again is back at the
\* position of the visible order it had before.
VisibilityKeepsOrder ==
    /\ lastOp.op \in {"toggleStreamerVisibility", "showAll"}
          => streamerOrder = snap.order
    /\ \A id \in CatalogIds :
         (lastOp = ToggleVisibilityOp(id) /\ prevOp = ToggleVisibilityOp(id)
            /\ id \in snap2.visible)
         => currentVisibleOrder = VisibleOrderOf(snap2.order, snap2.visible)

\* A slot that is not last in a reordered list was hidden and shown again.
VisibilityKeepsOrderWitness ==
    \E id \in CatalogIds :
        /\ lastOp = ToggleVisibilityOp(id) /\ prevOp = ToggleVisibilityOp(id)
        /\ id \in snap2.visible
        /\ snap2.order # STREAMERS
        /\ IndexOf(streamerOrder, id) < Len(streamerOrder) - 1
        /\ IndexOf(visibleStreamers, id) # IndexOf(currentVisibleOrder, id)

\* The variables of the program (all but the log).
programVars ==
    << hasEntered, isMobile, isChatOpen, settings, layoutMode,
       visibleStreamers, streamerOrder, streamerStates, expandedStreamerId,
       isDragging, dragItem, dragOverItem, isResizing, dragSession,
       selectedStreamerId, chatOverrides, openSelectorId,
       innerWidth, renderedInnerWidth, globalRefreshKey, timers, dock, slot >>

AtBoundary(order, id, direction) ==
    \/ direction = "up" /\ IndexOf(order, id) = 0
    \/ direction = "down" /\ IndexOf(order, id) = Len(order) - 1

\* C20: a discrete move at a boundary (up for the first id, down for the
\* last) and a move of an id that is not in the order leave the order and
\* all other state unchanged.
BoundaryMoveIsNoOp ==
    /\ [][ \A id \in CatalogIds, direction \in {"up", "down"} :
             (handleMoveStreamer(id, direction)
                /\ AtBoundary(streamerOrder, id, direction))
             => UNCHANGED programVars ]_vars
    /\ [](\A direction \in {"up", "down"} :
             MoveOrder(streamerOrder, "unknown", direction) = streamerOrder)

\* Such a move ran on a reordered list.
BoundaryMoveIsNoOpWitness ==
    \E id \in CatalogIds, direction \in {"up", "down"} :
        /\ lastOp = MoveOp(id, direction)
        /\ AtBoundary(snap.order, id, direction)
        /\ streamerOrder = snap.order
        /\ streamerOrder # STREAMERS

ToggleLayoutOp == Op("toggleLayout", NoId, "", NoIndex, NoIndex)

\* The cycle columns -> grid -> pyramid -> columns.
CycleSuccessor ==
    [ mode \in LayoutModes |->
        IF mode = "columns" THEN "grid"
        ELSE IF mode = "grid" THEN "pyramid"
        ELSE "columns" ]

\* C21: toggleLayout moves the layout mode one step along columns -> grid
\* -> pyramid -> columns: a toggle never repeats the mode, two toggles in a
\* row never return to the mode they started from, and the third toggle
\* does.
LayoutModeCycles ==
    /\ layoutMode \in LayoutModes
    /\ lastOp = ToggleLayoutOp
         => /\ layoutMode = CycleSuccessor[snap.layoutMode]
            /\ layoutMode # snap.layoutMode
    /\ (lastOp = ToggleLayoutOp /\ prevOp = ToggleLayoutOp)
         => /\ layoutMode = CycleSuccessor[CycleSuccessor[snap2.layoutMode]]
            /\ layoutMode # snap2.layoutMode
            /\ NextLayout(layoutMode) = snap2.layoutMode

\* Two toggles in a row that started from grid and wrapped to columns.
LayoutModeCyclesWitness ==
    /\ lastOp = ToggleLayoutOp /\ prevOp = ToggleLayoutOp
    /\ snap2.layoutMode = "grid"
    /\ layoutMode = "columns"

\* C22: with no expanded slot and one or two visible slots the layout is
\* the same under columns, grid and pyramid: the container is the linear
\* flex container, a single slot fills it, and two slots share it equally.
FewSlotsCase == expandedStreamerId = NoId /\ visibleCount \in {1, 2}

FewSlotsIgnoreMode ==
    FewSlotsCase =>
        /\ getContainerGridClass = "flex flex-col md:flex-row"
        /\ StreamGrid = currentVisibleOrder
        /\ Len(StreamGrid) = visibleCount
        /\ \A k \in 1..Len(StreamGrid) :
             SlotGridClasses(StreamGrid[k]) =
               IF visibleCount = 1 THEN "flex-1 w-full h-full"
               ELSE "flex-1 border-b md:border-b-0 md:border-r border-white/5 last:border-0"

\* Two visible slots of a reordered list in pyramid mode.
FewSlotsIgnoreModeWitness ==
    /\ FewSlotsCase
    /\ visibleCount = 2
    /\ layoutMode = "pyramid"
    /\ streamerOrder # STREAMERS

\* C23: the selected tab is always "all" or a catalog id, and a rendered
\* chat panel displays exactly one view: the mix view if and only if the
\* selected tab is "all", otherwise the individual view of the selected
\* streamer and no other.
OneChatViewDisplayed ==
    /\ selectedStreamerId \in {"all"} \cup CatalogIds
    /\ (hasEntered /\ chatPanelOpen) =>
         /\ Cardinality(DisplayedChatViews) = 1
         /\ (<< "mix", "all" >> \in DisplayedChatViews) <=> (selectedStreamerId = "all")
         /\ selectedStreamerId # "all"
              => DisplayedChatViews = { << "tab", selectedStreamerId >> }

\* An individual tab is selected in a panel shown in chat-only mode.
OneChatViewDisplayedWitness ==
    /\ hasEntered /\ chatPanelOpen /\ ~isChatOpen
    /\ selectedStreamerId = "coringa"
    /\ DisplayedChatViews = { << "tab", "coringa" >> }

ResizeHandleOps == {"startResizing", "stopResizing", "resize"}

\* In chat-only mode no resize-handle event changes settings.chatWidth,
\* whether or not a resize drag was in progress when the mode was entered.
ChatOnlyHandleLocked ==
    (lastOp.op \in ResizeHandleOps /\ ~snap.streamsVisible)
        => settings.chatWidth = snap.chatWidth

\* C24: while streamsVisible is false no resize-handle event (mouse down,
\* move, up) changes settings.chatWidth, also when a resize drag was in
\* progress as chat-only mode was entered, and the panel width equals the
\* full viewport width.
ChatOnlyWidthLocked ==
    /\ ChatOnlyHandleLocked
    /\ (hasEntered /\ ~settings.streamsVisible) => currentChatWidth = innerWidth

\* C25: ControlDock and StreamSlot each have at most one inactivity
\* timer pending; the timeout callback runs only when a full timeout has
\* passed since the last activity event; and no inactivity timer is
\* pending for a component that is not mounted.
OneInactivityTimer ==
    /\ [](Cardinality(PendingTimers("setIsUIActive")) <= 1)
    /\ [](Cardinality(PendingTimers("setIsUserActive")) <= 1)
    /\ [](~dock.mounted => PendingTimers("setIsUIActive") = {})
    /\ [](~slot.mounted => PendingTimers("setIsUserActive") = {})
    /\ [][dockTimeout => dock.idle >= InactivityTimeout]_vars
    /\ [][slotTimeout => slot.idle >= InactivityTimeout]_vars

\* The dock is inactive and the slot's timer was restarted by a second
\* event while the first timer was still running.
OneInactivityTimerWitness ==
    /\ dock.mounted /\ ~dock.isUIActive
    /\ slot.mounted /\ slot.isUserActive
    /\ slot.activityTimerRef \in PendingTimers("setIsUserActive")
    /\ timers[slot.activityTimerRef].remaining = 2000
    /\ slot.idle = 3000
    /\ dock.idle = InactivityTimeout

\* C26: after any sequence of visibility toggles, show-all and resets
\* from the default state, visibleStreamers holds only catalog ids and no
\* id twice, so visibleCount is the number of distinct visible streamers.
VisibleIsSet ==
    /\ Range(visibleStreamers) \subseteq CatalogIds
    /\ \A j, k \in 1..Len(visibleStreamers) :
         visibleStreamers[j] = visibleStreamers[k] => j = k
    /\ visibleCount = Cardinality(Range(visibleStreamers))

\* Show-all brought back two hidden slots behind the one left visible.
VisibleIsSetWitness ==
    /\ lastOp.op = "showAll"
    /\ Cardinality(snap.visible) = 1
    /\ Len(visibleStreamers) = Len(STREAMERS)
    /\ visibleStreamers # STREAMERS

\* C27: a drag that ends without a drop leaves the order unchanged, and a
\* drop uses only a source and a target recorded during its own drag: a
\* drop that directly follows onDragStart, with no onDragEnter in between,
\* leaves the order unchanged, also after an earlier drag was cancelled.
InterruptedDragIsNoOp ==
    /\ lastOp.op = "dragAbort" => streamerOrder = snap.order
    /\ (lastOp.op = "onDrop" /\ prevOp.op = "onDragStart")
         => streamerOrder = snap.order

\* A drop whose source and target positions differ and both held visible
\* slots.
VisibleDrop ==
    /\ lastOp.op = "onDrop"
    /\ lastOp.a # NoIndex /\ lastOp.b # NoIndex /\ lastOp.a # lastOp.b
    /\ snap.order[lastOp.a + 1] \in snap.visible
    /\ snap.order[lastOp.b + 1] \in snap.visible

\* C28: after visible slot X was dropped onto a different visible slot Y,
\* X is at the position of the visible order that Y had before the drop,
\* whatever hidden ids lie between or around them, and the relative order
\* of all other ids is unchanged.
DropMatchesVisibleOrder ==
    VisibleDrop =>
        LET X == snap.order[lastOp.a + 1]
            Y == snap.order[lastOp.b + 1]
        IN  /\ IndexOf(VisibleOrderOf(streamerOrder, snap.visible), X)
                 = IndexOf(VisibleOrderOf(snap.order, snap.visible), Y)
            /\ FilterOut(streamerOrder, X) = FilterOut(snap.order, X)
            /\ Range(visibleStreamers) = snap.visible

\* The drop went across a hidden slot of a reordered list.
DropMatchesVisibleOrderWitness ==
    /\ VisibleDrop
    /\ snap.order # STREAMERS
    /\ \E p \in 0..(Len(snap.order) - 1) :
         /\ snap.order[p + 1] \notin snap.visible
         /\ \/ (lastOp.a < p /\ p < lastOp.b)
            \/ (lastOp.b < p /\ p < lastOp.a)

\* C29: whenever settings.cinemaMode is true the isOpen value passed to
\* MultiChat is false, in every reachable state, chat-only mode
\* (streamsVisible false) included.
CinemaHidesChatPanel == settings.cinemaMode => ~chatPanelOpen

\* C30: the loading overlay of a mounted slot is always eventually
\* cleared, whether or not the iframe reports a load; at most one safety
\* timer is pending, and the timer that fires is the one of the latest
\* load: a full timeout has passed since the loading effect last ran.
LoadingOverlayCleared ==
    /\ (slot.mounted /\ slot.isLoading) ~> (~slot.isLoading \/ ~slot.mounted)
    /\ [](Cardinality(PendingTimers("setIsLoading")) <= 1)
    /\ [](~slot.mounted => PendingTimers("setIsLoading") = {})
    /\ [][loadingTimeout => slot.sinceLoad >= LoadingTimeout]_vars

\* After a reload, a platform change and a refresh-all the safety timer
\* has fired and cleared the overlay.
LoadingOverlayClearedWitness ==
    /\ slot.mounted /\ ~slot.isLoading
    /\ slot.localRefreshKey = 2
    /\ globalRefreshKey = 1
    /\ streamerStates[SlotId] = "Kick"
    /\ PendingTimers("setIsLoading") = {}
    /\ slot.sinceLoad = LoadingTimeout

====
